---- MODULE Spec2Model ----
(***************************************************************************)
(* Model of the directory prefix renamer (app/renamer.py).                 *)
(*                                                                         *)
(* A name is a sequence of one-character strings, a path is a sequence of  *)
(* names (the empty path is the top of the path space: "/" or "."), the    *)
(* filesystem is a set of directory paths and a set of file records.       *)
(***************************************************************************)
EXTENDS Integers, Sequences, FiniteSets, TLC

(***************************************************************************)
(* Characters and strings                                                  *)
(***************************************************************************)
DigitChars == <<"0", "1", "2", "3", "4", "5", "6", "7", "8", "9">>

UpperChars == <<"A", "B", "C", "D", "E", "F", "G", "H", "I", "J", "K", "L", "M",
                "N", "O", "P", "Q", "R", "S", "T", "U", "V", "W", "X", "Y", "Z">>

LowerChars == <<"a", "b", "c", "d", "e", "f", "g", "h", "i", "j", "k", "l", "m",
                "n", "o", "p", "q", "r", "s", "t", "u", "v", "w", "x", "y", "z">>

Range(s) == {s[i] : i \in DOMAIN s}

IndexIn(s, c) == CHOOSE i \in DOMAIN s : s[i] = c

DigitSet == Range(DigitChars)
UpperSet == Range(UpperChars)
LowerSet == Range(LowerChars)

\* U+00B2, SUPERSCRIPT TWO, written as a name: one of the characters that
\* str.isdigit() takes for digits and that neither \d nor int() takes.
Sup2 == "sup2"

CharSet == DigitSet \cup UpperSet \cup LowerSet \cup {".", "_", Sup2}

\* The code point of a character.
CodeOf == [c \in CharSet |->
             IF c \in DigitSet THEN 47 + IndexIn(DigitChars, c)
             ELSE IF c \in UpperSet THEN 64 + IndexIn(UpperChars, c)
             ELSE IF c \in LowerSet THEN 96 + IndexIn(LowerChars, c)
             ELSE IF c = "." THEN 46
             ELSE IF c = "_" THEN 95 ELSE 178]

\* str.lower() on one character.
LowerOf == [c \in CharSet |->
              IF c \in UpperSet THEN LowerChars[IndexIn(UpperChars, c)] ELSE c]

\* \d of _DIGIT_REGEX on one character.
IsDigitChar(c) == c \in DigitSet

\* The value of a decimal digit.
DigitValueOf == [c \in DigitSet |-> IndexIn(DigitChars, c) - 1]

DigitValue(c) == DigitValueOf[c]

\* str.lower()
Lower(s) == [i \in DOMAIN s |-> LowerOf[s[i]]]

\* str.isdigit(): non-empty and every character a digit, the superscripts
\* among them.
IsDigit(s) == s # <<>> /\ \A i \in DOMAIN s : s[i] \in DigitSet \cup {Sup2}

\* int(s) raises ValueError: s is not a string of decimal digits.
IntRaises(s) == s = <<>> \/ \E i \in DOMAIN s : s[i] \notin DigitSet

\* int(s) of a digit string (unbounded: Python integers do not overflow).
RECURSIVE ToInt(_)
ToInt(s) == IF s = <<>> THEN 0
            ELSE 10 * ToInt(SubSeq(s, 1, Len(s) - 1)) + DigitValue(s[Len(s)])

\* str(n) of a non-negative integer, as the f-string formats prefix_index.
RECURSIVE IntToStr(_)
IntToStr(n) == IF n < 10 THEN <<DigitChars[n + 1]>>
               ELSE IntToStr(n \div 10) \o <<DigitChars[(n % 10) + 1]>>

\* Python's str comparison: lexicographic by code point. "lt", "eq" or "gt".
RECURSIVE StrCmp(_, _)
StrCmp(a, b) ==
    IF a = <<>> /\ b = <<>> THEN "eq"
    ELSE IF a = <<>> THEN "lt"
    ELSE IF b = <<>> THEN "gt"
    ELSE IF CodeOf[Head(a)] < CodeOf[Head(b)] THEN "lt"
    ELSE IF CodeOf[Head(a)] > CodeOf[Head(b)] THEN "gt"
    ELSE StrCmp(Tail(a), Tail(b))

(***************************************************************************)
(* natural_key                                                             *)
(***************************************************************************)
\* _DIGIT_REGEX.split(text): the parts between and including the maximal digit
\* runs; text parts at even positions (possibly empty at the ends), digit runs
\* at odd positions.  parts: the parts so far, the last one still growing.
RECURSIVE SplitFrom(_, _, _, _)
SplitFrom(text, i, parts, inDigits) ==
    IF i > Len(text)
    THEN (IF inDigits THEN Append(parts, <<>>) ELSE parts)
    ELSE LET c    == text[i]
             n    == Len(parts)
             grow == [parts EXCEPT ![n] = Append(parts[n], c)]
             open == Append(parts, <<c>>)
         IN  IF IsDigitChar(c) = inDigits
             THEN SplitFrom(text, i + 1, grow, inDigits)
             ELSE SplitFrom(text, i + 1, open, ~inDigits)

DigitRegexSplit(text) == SplitFrom(text, 1, << <<>> >>, FALSE)

\* One token of a key: an int (isInt, n) or a lower-cased str (s).
\* A key that leaves the digit runs as text.
IntToken_AsText(p) == [isInt |-> FALSE, n |-> 0, s |-> Lower(p)]
IntToken(p) == [isInt |-> TRUE, n |-> ToInt(p), s |-> <<>>]
StrToken(p) == [isInt |-> FALSE, n |-> 0, s |-> Lower(p)]

\* natural_key(text) raises: a part that isdigit() accepts and int() refuses.
KeyRaises(text) ==
    LET parts == DigitRegexSplit(text)
    IN  \E i \in DOMAIN parts : IsDigit(parts[i]) /\ IntRaises(parts[i])

\* The key of a text for which natural_key raises nothing.
natural_key(text) ==
    LET parts == DigitRegexSplit(text)
    IN  [i \in DOMAIN parts |->
            IF IsDigit(parts[i]) THEN IntToken(parts[i]) ELSE StrToken(parts[i])]

\* Python's < on two tokens: "lt", "eq", "gt", or "TypeError" for int against str.
TokenCmp(x, y) ==
    IF x.isInt /\ y.isInt
    THEN (IF x.n < y.n THEN "lt" ELSE IF x.n > y.n THEN "gt" ELSE "eq")
    ELSE IF ~x.isInt /\ ~y.isInt THEN StrCmp(x.s, y.s)
    ELSE "TypeError"

\* Python's list comparison: the first position where the elements differ
\* decides; without one, the shorter list is the smaller.
RECURSIVE KeyCmpFrom(_, _, _)
KeyCmpFrom(k1, k2, i) ==
    IF i > Len(k1) /\ i > Len(k2) THEN "eq"
    ELSE IF i > Len(k1) THEN "lt"
    ELSE IF i > Len(k2) THEN "gt"
    ELSE IF k1[i] = k2[i] THEN KeyCmpFrom(k1, k2, i + 1)
    ELSE TokenCmp(k1[i], k2[i])

KeyCmp(k1, k2) == KeyCmpFrom(k1, k2, 1)

\* key(a) < key(b), the comparison list.sort makes.
NaturalLess(a, b) == KeyCmp(natural_key(a), natural_key(b)) = "lt"

(***************************************************************************)
(* Paths                                                                   *)
(***************************************************************************)
\* Path.name
NameOf(p) == IF p = <<>> THEN <<>> ELSE p[Len(p)]

\* Path.parent: the parent of the top is the top itself.
ParentOf(p) == IF p = <<>> THEN <<>> ELSE SubSeq(p, 1, Len(p) - 1)

\* A with_name that puts the name one directory up.
WithName_OneUp(p, name) == Append(ParentOf(ParentOf(p)), name)

\* Path.with_name(name)
WithName(p, name) == Append(ParentOf(p), name)

IsUnder(p, d) == Len(p) > Len(d) /\ SubSeq(p, 1, Len(d)) = d

IsChildOf(p, d) == Len(p) = Len(d) + 1 /\ SubSeq(p, 1, Len(d)) = d

\* list.sort(key=lambda p: natural_key(p.name)): stable, by < on the keys.
RECURSIVE InsertByKey(_, _)
InsertByKey(sorted, p) ==
    IF sorted = <<>> THEN <<p>>
    ELSE IF NaturalLess(NameOf(p), NameOf(Head(sorted)))
         THEN <<p>> \o sorted
         ELSE <<Head(sorted)>> \o InsertByKey(Tail(sorted), p)

\* A listing left in the order iterdir gave it.
SortNatural_Unsorted(ps) == ps

RECURSIVE SortNatural(_)
SortNatural(ps) ==
    IF ps = <<>> THEN <<>>
    ELSE InsertByKey(SortNatural(SubSeq(ps, 1, Len(ps) - 1)), ps[Len(ps)])

(***************************************************************************)
(* The names and paths the model draws trees from                          *)
(***************************************************************************)
N_2 == <<"2">>
N_10 == <<"1", "0">>
N_B2 == <<"B", "2">>
N_b10 == <<"b", "1", "0">>
N_1 == <<"1">>
N_a == <<"a">>
N_2_1 == <<"2", "_", "1">>
N_zz == <<"z", "z">>

\* The directories a tree may hold below the top; <<N_10>> is the usual root.
DirUniverse == { <<N_2>>, <<N_10>>, <<N_10, N_B2>>, <<N_10, N_b10>>, <<N_10, N_B2, N_1>> }

\* The places a tree may hold a file.
FileUniverse == { <<N_a>>, <<N_10, N_a>>, <<N_10, N_1>>, <<N_10, N_2_1>>,
                  <<N_10, N_B2, N_a>>, <<N_10, N_b10, N_1>> }

\* The faults the environment may inject: the files whose rename is refused,
\* the directories that cannot be read, the directories that may vanish.
LockUniverse == { <<N_10, N_1>>, <<N_10, N_B2, N_a>> }
DenyUniverse == { <<N_10, N_B2>> }
VanishUniverse == { <<N_10, N_B2>> }

\* The roots a run may be given: the top, a directory, a missing path, a file.
RootUniverse == { <<>>, <<N_10>>, <<N_zz>>, <<N_10, N_1>> }

\* os.rename differs by platform when the destination exists.
Platforms == {"posix", "nt"}

\* Path.iterdir yields entries in arbitrary order: one of two orders per run.
ScanOrders == {"asc", "desc"}

\* The largest number of files in a tree.
MaxFiles == 3

\* The largest number of faults of the environment in one behaviour: files whose
\* rename is refused, directories that cannot be read, directories that vanish.
MaxFaults == 1

\* The number of runs of rename_files_in_tree in one behaviour.
MaxRuns == 2

(***************************************************************************)
(* State                                                                   *)
(***************************************************************************)
VARIABLES
    dirs,        \* the directories of the filesystem (paths), the top included
    files,       \* the files: [path, orig, moves], orig the path before the first run
    denied,      \* directories whose listing raises PermissionError
    locked,      \* original paths of the files whose rename raises PermissionError
    vanishing,   \* directories that another process may still remove
    platform,    \* "posix" or "nt"
    scanOrder,   \* the order in which iterdir yields entries
    root,        \* rename_files_in_tree's root
    includeRoot, \* rename_files_in_tree's include_root_files
    pc,          \* "idle", "rootfiles", "walk", "rename", "done", "raised"
    run,         \* the number of the current run
    total,       \* total_changed
    changed,     \* _prefix_files_in_dir's changed
    stack,       \* _iter_subdirs_natural's frames: the subdirs each still has to yield
    cur,         \* the directory being processed (the one the walker lists next)
    idx,         \* prefix_index of the directory being processed
    entries,     \* _prefix_files_in_dir's entries still to rename
    events,      \* the messages given to log in this run
    results,     \* the values returned by the runs so far
    err,         \* the exception rename_files_in_tree raised, "none" if none
    uuid,        \* the number of temporary names generated (uuid4 never repeats)
    last,        \* the last call of _safe_rename: its arguments and outcome
    listed,      \* the number of files listed by _prefix_files_in_dir in this run
    dirs0,       \* the directories before the first run
    files0,      \* the file paths before the first run
    indexed      \* the <<folder, index>> pairs get_folder_index_among_siblings returned

\* The front-end (ui.py): run_app's loop in the main thread, the _worker threads
\* it starts, and the queue between them.
VARIABLES
    uiPc,        \* run_app's position: "read", "pump", "handle", "closed"
    event,       \* the event window.read returned
    folder_str,  \* values["-FOLDER-"]: "" (empty), "file" (not a directory), "dir"
    running,     \* run_app's running
    button,      \* the Start button: [text, disabled]
    log_queue,   \* the messages put and not yet got
    shown,       \* the lines of the log box
    workers,     \* the threads: [pc, logs], pc "unborn", "start", "call", "finally", "dead"
    puts         \* the messages the latest thread of each slot has put so far

uiVars == <<uiPc, event, folder_str, running, button, log_queue, shown, workers, puts>>

\* natural_key on its own: two names whose keys are compared.
VARIABLES
    names,       \* the two names
    cmp          \* the outcome of key(names[1]) < key(names[2]): "none" before,
                 \* then "lt", "eq", "gt", "TypeError" or "ValueError"

keyVars == <<names, cmp>>

coreVars == <<dirs, files, denied, locked, vanishing, platform, scanOrder, root,
              includeRoot, pc, run, total, changed, stack, cur, idx, entries, events,
              results, err, uuid, last, listed, dirs0, files0, indexed, keyVars>>

vars == <<coreVars, uiVars>>

\* What no step of a run changes: the environment, the arguments, the records
\* of the initial tree.
envVars == <<denied, locked, platform, scanOrder, root, includeRoot, dirs0, files0,
             indexed, uiVars, keyVars>>

(***************************************************************************)
(* The filesystem                                                          *)
(***************************************************************************)
FilePaths(fs) == {f.path : f \in fs}

FileAt(fs, p) == CHOOSE f \in fs : f.path = p

\* Path.exists(), Path.is_dir(), Path.is_file()
Exists(ds, fs, p) == p \in ds \/ p \in FilePaths(fs)
IsDir(ds, p) == p \in ds
IsFile(fs, p) == p \in FilePaths(fs)

\* The entries of a set of sibling paths in the order the scan yields them.
RECURSIVE ScanSeq(_, _)
ScanSeq(ps, order) ==
    IF ps = {} THEN <<>>
    ELSE LET first == CHOOSE p \in ps : \A q \in ps \ {p} :
                          StrCmp(NameOf(p), NameOf(q)) = (IF order = "asc" THEN "lt" ELSE "gt")
         IN  <<first>> \o ScanSeq(ps \ {first}, order)

\* Path.iterdir(): the children of d, or the exception raised.
IterDir(ds, fs, dn, order, d) ==
    IF d \notin ds
    THEN [exc |-> (IF d \in FilePaths(fs) THEN "NotADirectoryError" ELSE "FileNotFoundError"),
          list |-> <<>>]
    ELSE IF d \in dn THEN [exc |-> "PermissionError", list |-> <<>>]
    ELSE [exc |-> "none",
          list |-> ScanSeq({p \in ds \cup FilePaths(fs) : IsChildOf(p, d)}, order)]

\* [p for p in d.iterdir() if p.is_dir()] and its is_file() twin.
SelectDirs(ds, list) == SelectSeq(list, LAMBDA p : IsDir(ds, p))
SelectFiles(fs, list) == SelectSeq(list, LAMBDA p : IsFile(fs, p))

\* Position of x in a sequence (list.index), 0 when absent (ValueError).
RECURSIVE IndexOf(_, _, _)
IndexOf(s, x, i) ==
    IF i > Len(s) THEN 0 ELSE IF s[i] = x THEN i ELSE IndexOf(s, x, i + 1)

\* An index that forgets the + 1 of line 85.
get_folder_index_zero_based(ds, fs, dn, order, folder) ==
    LET parent == ParentOf(folder)
    IN  IF parent = folder THEN [exc |-> "none", index |-> 1]
        ELSE LET ls == IterDir(ds, fs, dn, order, parent)
             IN  IF ls.exc = "FileNotFoundError" THEN [exc |-> "none", index |-> 1]
                 ELSE IF ls.exc # "none" THEN [exc |-> ls.exc, index |-> 0]
                 ELSE LET siblings == SortNatural(SelectDirs(ds, ls.list))
                          at       == IndexOf(siblings, folder, 1)
                      IN  [exc |-> "none", index |-> IF at = 0 THEN 1 ELSE at - 1]

get_folder_index_among_siblings(ds, fs, dn, order, folder) ==
    LET parent == ParentOf(folder)
    IN  IF parent = folder THEN [exc |-> "none", index |-> 1]
        ELSE LET ls == IterDir(ds, fs, dn, order, parent)
             IN  IF ls.exc = "FileNotFoundError" THEN [exc |-> "none", index |-> 1]
                 ELSE IF ls.exc # "none" THEN [exc |-> ls.exc, index |-> 0]
                 ELSE LET siblings == SortNatural(SelectDirs(ds, ls.list))
                          at       == IndexOf(siblings, folder, 1)
                      IN  [exc |-> "none", index |-> IF at = 0 THEN 1 ELSE at]

\* os.rename(src, dst) on the files: the new files, or the exception raised.
OsRename(ds, fs, lk, plat, src, dst) ==
    IF src \notin FilePaths(fs) THEN [exc |-> "FileNotFoundError", files |-> fs]
    ELSE LET f == FileAt(fs, src)
             moved == [f EXCEPT !.path = dst]
         IN  IF f.orig \in lk THEN [exc |-> "PermissionError", files |-> fs]
             ELSE IF dst \in ds
                  THEN [exc |-> (IF plat = "nt" THEN "FileExistsError" ELSE "IsADirectoryError"),
                        files |-> fs]
             ELSE IF dst \in FilePaths(fs)
                  THEN IF plat = "nt"
                       THEN [exc |-> "FileExistsError", files |-> fs]
                       ELSE [exc |-> "none",
                             files |-> (fs \ {f, FileAt(fs, dst)}) \cup {moved}]
             ELSE [exc |-> "none", files |-> (fs \ {f}) \cup {moved}]

\* uuid.uuid4().hex, one fresh value per call.
UuidHex(n) == IntToStr(n)

TempPrefix == <<"_", "_", "r", "e", "n", "a", "m", "i", "n", "g", "_", "_">>

\* f"__renaming__{uuid.uuid4().hex}__{src.name}"
TempName(n, name) == TempPrefix \o UuidHex(n) \o <<"_", "_">> \o name

\* _safe_rename(src, dst): the new files, the exception raised, whether the
\* temporary hop was taken.
_safe_rename(ds, fs, lk, plat, n, src, dst) ==
    IF src = dst THEN [exc |-> "none", files |-> fs, hop |-> FALSE]
    ELSE IF Exists(ds, fs, dst)
         THEN LET temp == WithName(src, TempName(n, NameOf(src)))
                  h1   == OsRename(ds, fs, lk, plat, src, temp)
                  h2   == OsRename(ds, h1.files, lk, plat, temp, dst)
              IN  IF h1.exc # "none"
                  THEN [exc |-> h1.exc, files |-> h1.files, hop |-> TRUE]
                  ELSE [exc |-> h2.exc, files |-> h2.files, hop |-> TRUE]
         ELSE LET h == OsRename(ds, fs, lk, plat, src, dst)
              IN  [exc |-> h.exc, files |-> h.files, hop |-> FALSE]

(***************************************************************************)
(* rename_files_in_tree, one action per step                               *)
(***************************************************************************)
\* One message given to log: t is "ROOT" (Processing root files), "PROCESSING",
\* "RENAMED", "ERROR" or "DONE"; p and q are the paths, n the index or total.
Ev(t, p, q, n) == [t |-> t, p |-> p, q |-> q, n |-> n]

NoCall == [called |-> FALSE, src |-> <<>>, dst |-> <<>>, dstExisted |-> FALSE,
           hop |-> FALSE, exc |-> "none", srcKept |-> TRUE, dstKept |-> TRUE]

\* The subsets of a set with at most n elements.
SubsetsUpTo(S, n) == {T \in SUBSET S : Cardinality(T) <= n}

\* The trees: sets of directories closed under parent, the top always there.
Trees == {T \cup {<<>>} : T \in {U \in SUBSET DirUniverse : \A d \in U : ParentOf(d) \in U \cup {<<>>}}}

NewFile(p) == [path |-> p, orig |-> p, moves |-> 0]

\* The arguments and the platform of a run.
InitArgs ==
    /\ root \in RootUniverse
    /\ includeRoot \in BOOLEAN
    /\ platform \in Platforms
    /\ scanOrder \in ScanOrders

\* The tree: directories and at most MaxFiles files.
InitTree ==
    /\ dirs \in Trees
    /\ \E F \in SubsetsUpTo({p \in FileUniverse : ParentOf(p) \in dirs}, MaxFiles) :
          files = {NewFile(p) : p \in F}
    /\ dirs0 = dirs
    /\ files0 = FilePaths(files)

\* The largest number of worker threads alive at once; the slot of a thread
\* that has ended is free for the next one.
MaxThreads == 2

\* The largest number of messages rename_files_in_tree gives to log in one call.
MaxLogs == 2

WorkerIds == 1 .. MaxThreads

\* run_app before its loop (ui.py, lines 76-80): no worker, an empty queue, not
\* running, the Start button enabled.
InitUI ==
    /\ uiPc = "read"
    /\ event = "none"
    /\ folder_str = ""
    /\ running = FALSE
    /\ button = [text |-> "Start", disabled |-> FALSE]
    /\ log_queue = <<>>
    /\ shown = <<>>
    /\ workers = [w \in WorkerIds |-> [pc |-> "unborn", logs |-> 0]]
    /\ puts = [w \in WorkerIds |-> <<>>]

\* No comparison of keys on its own.
InitKey ==
    /\ names = << <<>>, <<>> >>
    /\ cmp = "none"

\* The state of rename_files_in_tree before its first call.
RunIdle ==
    /\ pc = "idle"
    /\ run = 1
    /\ total = 0
    /\ changed = 0
    /\ stack = <<>>
    /\ cur = <<>>
    /\ idx = 0
    /\ entries = <<>>
    /\ events = <<>>
    /\ results = <<>>
    /\ err = "none"
    /\ uuid = 0
    /\ last = NoCall
    /\ listed = 0
    /\ indexed = {}

\* The same, the front-end, which these runs do without, staying as run_app
\* finds it.
InitRun ==
    /\ RunIdle
    /\ InitUI
    /\ InitKey

\* A quiet filesystem: nothing but the run touches it, every rename the
\* platform allows succeeds.
Init ==
    /\ InitTree
    /\ InitArgs
    /\ locked = {}
    /\ denied = {}
    /\ vanishing = {}
    /\ InitRun

\* A hostile environment: at most MaxFaults faults.
InitEnv ==
    /\ InitTree
    /\ InitArgs
    /\ locked \in SubsetsUpTo(LockUniverse \cap FilePaths(files), MaxFaults)
    /\ denied \in SubsetsUpTo(DenyUniverse \cap dirs, MaxFaults - Cardinality(locked))
    /\ vanishing \in SubsetsUpTo(VanishUniverse \cap dirs,
                                 MaxFaults - Cardinality(locked) - Cardinality(denied))
    /\ InitRun

\* rename_files_in_tree raises exc: nothing more is logged, nothing is returned.
Raise(exc) ==
    /\ pc' = "raised"
    /\ err' = exc
    /\ UNCHANGED <<results, total>>

\* A start that does not look at root.
Start_Unchecked ==
    /\ pc = "idle"
    /\ pc' = IF includeRoot THEN "rootfiles" ELSE "walk"
    /\ total' = 0
    /\ cur' = root
    /\ stack' = <<>>
    /\ UNCHANGED <<err, results>>
    /\ UNCHANGED <<dirs, files, vanishing, envVars, run, changed, idx, entries,
                   events, uuid, last, listed>>

\* Lines 156-160: the root precondition.
Start ==
    /\ pc = "idle"
    /\ IF ~Exists(dirs, files, root) \/ ~IsDir(dirs, root)
       THEN /\ Raise("NotADirectoryError")
            /\ UNCHANGED <<cur, stack>>
       ELSE /\ pc' = IF includeRoot THEN "rootfiles" ELSE "walk"
            /\ total' = 0
            /\ cur' = root
            /\ stack' = <<>>
            /\ UNCHANGED <<err, results>>
    /\ UNCHANGED <<dirs, files, vanishing, envVars, run, changed, idx, entries,
                   events, uuid, last, listed>>

\* The index of directory d, the message that announces it, and the listing at
\* the head of _prefix_files_in_dir (lines 163-166 and 169-172, 103-110).
Visit(d, t) ==
    LET gi  == get_folder_index_among_siblings(dirs, files, denied, scanOrder, d)
        ls  == IterDir(dirs, files, denied, scanOrder, d)
        ann == Append(events, Ev(t, d, <<>>, gi.index))
        es  == IF ls.exc = "none" THEN SortNatural(SelectFiles(files, ls.list)) ELSE <<>>
    IN  /\ cur' = d
        /\ IF gi.exc # "none"
           THEN /\ Raise(gi.exc)
                /\ UNCHANGED <<idx, events, entries, changed, listed>>
           ELSE IF ls.exc \notin {"none", "FileNotFoundError"}
           THEN /\ Raise(ls.exc)
                /\ idx' = gi.index
                /\ events' = ann
                /\ changed' = 0
                /\ UNCHANGED <<entries, listed>>
           ELSE /\ idx' = gi.index
                /\ events' = ann
                /\ changed' = 0
                /\ entries' = es
                /\ listed' = listed + Len(es)
                /\ pc' = IF es = <<>> THEN "walk" ELSE "rename"
                /\ UNCHANGED <<err, results, total>>

\* Lines 162-166: the files of root itself.
RootFiles ==
    /\ pc = "rootfiles"
    /\ Visit(root, "ROOT")
    /\ UNCHANGED <<dirs, files, vanishing, envVars, run, stack, uuid, last>>

\* The frames of the walker that still have a directory to yield.
RECURSIVE DropEmpty(_)
DropEmpty(st) ==
    IF st = <<>> THEN <<>>
    ELSE IF st[Len(st)] = <<>> THEN DropEmpty(SubSeq(st, 1, Len(st) - 1))
    ELSE st

\* _iter_subdirs_natural resumed (lines 54-61): it lists the directory it
\* yielded last (root at first), and yields the next directory, which
\* rename_files_in_tree then visits (lines 168-172); when the walk is over,
\* lines 174-176.
NextDir ==
    /\ pc = "walk"
    /\ LET ls     == IterDir(dirs, files, denied, scanOrder, cur)
           pushed == IF ls.exc = "none"
                     THEN Append(stack, SortNatural(SelectDirs(dirs, ls.list)))
                     ELSE stack
           st     == DropEmpty(pushed)
       IN  IF ls.exc \notin {"none", "FileNotFoundError"}
           THEN /\ Raise(ls.exc)
                /\ UNCHANGED <<stack, cur, idx, events, entries, changed, listed>>
           ELSE IF st = <<>>
           THEN /\ events' = Append(events, Ev("DONE", <<>>, <<>>, total))
                /\ results' = Append(results, total)
                /\ pc' = "done"
                /\ stack' = <<>>
                /\ UNCHANGED <<cur, idx, entries, changed, listed, err, total>>
           ELSE /\ stack' = [st EXCEPT ![Len(st)] = Tail(@)]
                /\ Visit(Head(st[Len(st)]), "PROCESSING")
    /\ UNCHANGED <<dirs, files, vanishing, envVars, run, uuid, last>>

\* A count that also counts the renames that failed.
ChangedAfter_CountsAll(ok, n) == n + 1

\* changed += 1, reached only when _safe_rename raised nothing (lines 114-116).
ChangedAfter(ok, n) == IF ok THEN n + 1 ELSE n

\* One iteration of the loop of _prefix_files_in_dir (lines 111-122), and its
\* return with the caller's total_changed += (line 123) after the last one.
Rename ==
    /\ pc = "rename"
    /\ entries # <<>>
    /\ LET src == Head(entries)
           dst == WithName(src, IntToStr(idx) \o <<"_">> \o NameOf(src))
           r   == _safe_rename(dirs, files, locked, platform, uuid, src, dst)
           ok  == r.exc = "none"
           ch  == ChangedAfter(ok, changed)
           srcOrig == IF src \in FilePaths(files) THEN {FileAt(files, src).orig} ELSE {}
           dstOrig == IF dst \in FilePaths(files) THEN {FileAt(files, dst).orig} ELSE {}
       IN  /\ files' = {IF ok /\ src # dst /\ f.path = dst
                        THEN [f EXCEPT !.moves = @ + 1] ELSE f : f \in r.files}
           /\ uuid' = IF r.hop THEN uuid + 1 ELSE uuid
           /\ changed' = ch
           /\ events' = Append(events, IF ok THEN Ev("RENAMED", src, dst, 0)
                                             ELSE Ev("ERROR", src, <<>>, 0))
           /\ last' = [called |-> TRUE, src |-> src, dst |-> dst,
                       dstExisted |-> Exists(dirs, files, dst), hop |-> r.hop,
                       exc |-> r.exc,
                       srcKept |-> srcOrig \subseteq {f.orig : f \in r.files},
                       dstKept |-> dstOrig \subseteq {f.orig : f \in r.files}]
           /\ entries' = Tail(entries)
           /\ IF Tail(entries) = <<>>
              THEN /\ total' = total + ch
                   /\ pc' = "walk"
              ELSE UNCHANGED <<total, pc>>
    /\ UNCHANGED <<dirs, vanishing, envVars, run, stack, cur, idx, results, err, listed>>

\* Another process removes directory d and what it holds while a run goes on.
Vanish(d) ==
    /\ pc \in {"rootfiles", "walk", "rename"}
    /\ d \in vanishing
    /\ d \in dirs
    /\ vanishing' = vanishing \ {d}
    /\ dirs' = {p \in dirs : p # d /\ ~IsUnder(p, d)}
    /\ files' = {f \in files : ~IsUnder(f.path, d)}
    /\ UNCHANGED <<envVars, pc, run, total, changed, stack, cur, idx, entries,
                   events, results, err, uuid, last, listed>>

\* The caller runs rename_files_in_tree again, with the same arguments.
NextRun ==
    /\ pc = "done"
    /\ run < MaxRuns
    /\ pc' = "idle"
    /\ run' = run + 1
    /\ files' = {[f EXCEPT !.moves = 0] : f \in files}
    /\ events' = <<>>
    /\ listed' = 0
    /\ last' = NoCall
    /\ UNCHANGED <<dirs, vanishing, envVars, total, changed, stack, cur, idx,
                   entries, results, err, uuid>>

\* Runs of rename_files_in_tree, one after the other, on a quiet filesystem.
Next ==
    \/ Start
    \/ RootFiles
    \/ NextDir
    \/ Rename
    \/ NextRun

Spec == Init /\ [][Next]_vars

\* One run of rename_files_in_tree in a hostile environment.
NextEnv ==
    \/ Start
    \/ RootFiles
    \/ NextDir
    \/ Rename
    \/ \E d \in VanishUniverse : Vanish(d)

SpecEnv == InitEnv /\ [][NextEnv]_vars

(***************************************************************************)
(* get_folder_index_among_siblings on its own: the subdirectories of one   *)
(* parent, each asked for its index                                        *)
(***************************************************************************)
N_A == <<"A">>
N_B10 == <<"B", "1", "0">>
N_b1 == <<"b", "1">>
N_01 == <<"0", "1">>

\* The top_dirs of the test tree (create_testcase.py), and two names whose
\* keys equal another's: "a" (as "A") and "01" (as "1").
SiblingPool == {N_1, N_2, N_10, N_A, N_B2, N_B10, N_b1, N_a, N_01}

\* The largest number of subdirectories of the parent.
MaxSiblings == 7

InitIndex ==
    /\ \E S \in SubsetsUpTo(SiblingPool, MaxSiblings) : dirs = {<<>>} \cup {<<n>> : n \in S}
    /\ files = {}
    /\ dirs0 = dirs
    /\ files0 = {}
    /\ scanOrder \in ScanOrders
    /\ platform = "posix"
    /\ root = <<>>
    /\ includeRoot = FALSE
    /\ locked = {}
    /\ denied = {}
    /\ vanishing = {}
    /\ InitRun
    /\ indexed = {}

\* The caller asks for the index of the next subdirectory.
IndexStep ==
    /\ pc = "idle"
    /\ LET todo == {d \in dirs \ {<<>>} : \A pr \in indexed : pr[1] # d}
       IN  /\ todo # {}
           /\ LET d == Head(ScanSeq(todo, scanOrder))
                  r == get_folder_index_among_siblings(dirs, files, denied, scanOrder, d)
              IN  /\ r.exc = "none"
                  /\ cur' = d
                  /\ idx' = r.index
                  /\ indexed' = indexed \cup {<<d, r.index>>}
    /\ UNCHANGED <<dirs, files, denied, locked, vanishing, platform, scanOrder, root,
                   includeRoot, pc, run, total, changed, stack, entries, events,
                   results, err, uuid, last, listed, dirs0, files0, uiVars, keyVars>>

NextIndex == IndexStep

SpecIndex == InitIndex /\ [][NextIndex]_vars

(***************************************************************************)
(* The front-end (ui.py): run_app's event loop and the worker threads.     *)
(* The threads share nothing but log_queue, whose put and get_nowait are   *)
(* atomic, so one step is one queue operation with the statements of the   *)
(* same thread around it.  Of rename_files_in_tree the worker sees what    *)
(* Spec and SpecEnv show of it: some calls of log, then a return or a      *)
(* raise.                                                                  *)
(***************************************************************************)
\* What _log puts for msg (lines 30-32): the time of day, then msg.
LogLine(msg) == <<"[HH:MM:SS]", msg>>

\* The completion sentinel (line 45), put as it is.
Sentinel == <<"__DONE__">>

\* log_queue.put(body) by worker w.
Put(w, body) ==
    /\ log_queue' = Append(log_queue, body)
    /\ puts' = [puts EXCEPT ![w] = Append(@, body)]

\* Lines 34-35: the thread starts and logs its first line.
WorkerStart(w) ==
    /\ workers[w].pc = "start"
    /\ Put(w, LogLine("Start processing"))
    /\ workers' = [workers EXCEPT ![w].pc = "call"]
    /\ UNCHANGED <<uiPc, event, folder_str, running, button, shown, coreVars>>

\* Line 37: rename_files_in_tree calls log.
WorkerLog(w) ==
    /\ workers[w].pc = "call"
    /\ workers[w].logs < MaxLogs
    /\ Put(w, LogLine("log"))
    /\ workers' = [workers EXCEPT ![w].logs = @ + 1]
    /\ UNCHANGED <<uiPc, event, folder_str, running, button, shown, coreVars>>

\* Lines 37-39: rename_files_in_tree returns.
WorkerReturn(w) ==
    /\ workers[w].pc = "call"
    /\ Put(w, LogLine("SUCCESS"))
    /\ workers' = [workers EXCEPT ![w].pc = "finally"]
    /\ UNCHANGED <<uiPc, event, folder_str, running, button, shown, coreVars>>

\* A worker whose sentinel is put at the end of the try block only.
WorkerRaise_NoSentinel(w) ==
    /\ workers[w].pc = "call"
    /\ Put(w, LogLine("FAILED"))
    /\ workers' = [workers EXCEPT ![w].pc = "dead"]
    /\ UNCHANGED <<uiPc, event, folder_str, running, button, shown, coreVars>>

\* Lines 37, 40-42: rename_files_in_tree raises.
WorkerRaise(w) ==
    /\ workers[w].pc = "call"
    /\ Put(w, LogLine("FAILED"))
    /\ workers' = [workers EXCEPT ![w].pc = "finally"]
    /\ UNCHANGED <<uiPc, event, folder_str, running, button, shown, coreVars>>

\* Lines 43-45: the finally block, and the thread ends.
WorkerFinally(w) ==
    /\ workers[w].pc = "finally"
    /\ Put(w, Sentinel)
    /\ workers' = [workers EXCEPT ![w].pc = "dead"]
    /\ UNCHANGED <<uiPc, event, folder_str, running, button, shown, coreVars>>

WorkerStep(w) ==
    \/ WorkerStart(w)
    \/ WorkerLog(w)
    \/ WorkerReturn(w)
    \/ WorkerRaise(w)
    \/ WorkerFinally(w)

\* Lines 83-85: window.read returns an event (a timeout after 100 ms if nothing
\* else) and the values of the fields, of which only a Start makes use; closing
\* the window ends the loop.  A Start arrives whatever the button shows (the
\* Return key is bound to it), as long as the model has a slot for a thread.
Read ==
    /\ uiPc = "read"
    /\ \E e \in {"__TIMEOUT__", "-START-", "WIN_CLOSED"}, f \in {"", "file", "dir"} :
          /\ e = "-START-" => \E w \in WorkerIds : workers[w].pc \in {"unborn", "dead"}
          /\ e # "-START-" => f = ""
          /\ event' = e
          /\ folder_str' = f
          /\ uiPc' = IF e = "WIN_CLOSED" THEN "closed" ELSE "pump"
    /\ UNCHANGED <<running, button, log_queue, shown, workers, puts, coreVars>>

\* Lines 88-97: one message taken from the queue: the sentinel ends the run,
\* any other message is a line for the log box.
PumpGet ==
    /\ uiPc = "pump"
    /\ log_queue # <<>>
    /\ LET msg == Head(log_queue)
       IN  /\ log_queue' = Tail(log_queue)
           /\ IF msg = Sentinel
              THEN /\ running' = FALSE
                   /\ button' = [text |-> "Start", disabled |-> FALSE]
                   /\ UNCHANGED shown
              ELSE /\ shown' = Append(shown, msg)
                   /\ UNCHANGED <<running, button>>
    /\ UNCHANGED <<uiPc, event, folder_str, workers, puts, coreVars>>

\* Lines 91-92: get_nowait raises Empty.
PumpEmpty ==
    /\ uiPc = "pump"
    /\ log_queue = <<>>
    /\ uiPc' = "handle"
    /\ UNCHANGED <<event, folder_str, running, button, log_queue, shown, workers, puts,
                   coreVars>>

\* A front-end that starts a worker at every Start.
StartAccepted_WhileRunning == event = "-START-" /\ folder_str = "dir"

\* Lines 99-110: a Start goes through if no run is outstanding and the folder
\* is a directory.
StartAccepted == event = "-START-" /\ ~running /\ folder_str = "dir"

\* Lines 99-120: the event is handled, and a worker started if Start goes
\* through.
HandleEvent ==
    /\ uiPc = "handle"
    /\ uiPc' = "read"
    /\ IF StartAccepted
       THEN LET free == {v \in WorkerIds : workers[v].pc \in {"unborn", "dead"}}
                w    == CHOOSE v \in free : \A u \in free : v <= u
            IN  /\ shown' = <<>>
                /\ button' = [text |-> "Running...", disabled |-> TRUE]
                /\ running' = TRUE
                /\ workers' = [workers EXCEPT ![w] = [pc |-> "start", logs |-> 0]]
                /\ puts' = [puts EXCEPT ![w] = <<>>]
       ELSE UNCHANGED <<shown, button, running, workers, puts>>
    /\ UNCHANGED <<event, folder_str, log_queue, coreVars>>

UILoop == Read \/ PumpGet \/ PumpEmpty \/ HandleEvent

\* Nothing of the tree is looked at.
NoTree ==
    /\ dirs = {<<>>}
    /\ files = {}
    /\ dirs0 = dirs
    /\ files0 = {}
    /\ scanOrder = "asc"
    /\ platform = "posix"
    /\ root = <<>>
    /\ includeRoot = FALSE
    /\ locked = {}
    /\ denied = {}
    /\ vanishing = {}

\* The front-end alone.
InitFrontEnd ==
    /\ NoTree
    /\ InitRun

NextUI ==
    \/ Read
    \/ PumpGet
    \/ PumpEmpty
    \/ HandleEvent
    \/ \E w \in WorkerIds : WorkerStart(w)
    \/ \E w \in WorkerIds : WorkerLog(w)
    \/ \E w \in WorkerIds : WorkerReturn(w)
    \/ \E w \in WorkerIds : WorkerRaise(w)
    \/ \E w \in WorkerIds : WorkerFinally(w)

SpecUI == InitFrontEnd /\ [][NextUI]_vars

\* The same with the scheduling the code relies on: window.read returns after
\* 100 ms at the latest, so the loop goes on while the window is open, and a
\* started thread is given time to run.
SpecUILive ==
    /\ InitFrontEnd
    /\ [][NextUI]_vars
    /\ WF_vars(UILoop)
    /\ \A w \in WorkerIds : WF_vars(WorkerStep(w))

(***************************************************************************)
(* get_folder_index_among_siblings asked for any path: a subdirectory, a   *)
(* path that is no longer there, a path whose parent is gone, the top; the *)
(* parent readable or not                                                  *)
(***************************************************************************)
\* The folders asked for.
AskUniverse == {<<>>, <<N_2>>, <<N_10>>, <<N_zz>>, <<N_zz, N_1>>}

InitAsk ==
    /\ \E S \in SubsetsUpTo(SiblingPool, MaxSiblings) : dirs = {<<>>} \cup {<<n>> : n \in S}
    /\ files = {}
    /\ dirs0 = dirs
    /\ files0 = {}
    /\ scanOrder \in ScanOrders
    /\ platform = "posix"
    /\ root = <<>>
    /\ includeRoot = FALSE
    /\ locked = {}
    /\ denied \in SubsetsUpTo({<<>>}, MaxFaults)
    /\ vanishing = {}
    /\ InitRun

\* One call: the index returned is recorded, or the exception that comes out.
AskIndex ==
    /\ pc = "idle"
    /\ indexed = {}
    /\ err = "none"
    /\ \E d \in AskUniverse :
          LET r == get_folder_index_among_siblings(dirs, files, denied, scanOrder, d)
          IN  /\ cur' = d
              /\ IF r.exc = "none"
                 THEN /\ idx' = r.index
                      /\ indexed' = {<<d, r.index>>}
                      /\ UNCHANGED err
                 ELSE /\ err' = r.exc
                      /\ UNCHANGED <<idx, indexed>>
    /\ UNCHANGED <<dirs, files, denied, locked, vanishing, platform, scanOrder, root,
                   includeRoot, pc, run, total, changed, stack, entries, events,
                   results, uuid, last, listed, dirs0, files0, uiVars, keyVars>>

NextAsk == AskIndex

SpecAsk == InitAsk /\ [][NextAsk]_vars

(***************************************************************************)
(* _prefix_files_in_dir on its own: one directory, its files taken in any  *)
(* order                                                                   *)
(***************************************************************************)
N_2_a == <<"2", "_", "a">>

\* File names of which some are the prefixed form of another.
OrderPool == {N_a, N_1, N_2_1, N_2_a}

\* The values of prefix_index.
OrderIndices == {1, 2}

\* The orders in which the elements of S can be taken.
Orders(S) ==
    {s \in [1 .. Cardinality(S) -> S] : \A i, j \in DOMAIN s : i # j => s[i] # s[j]}

\* The loop of _prefix_files_in_dir (lines 109-123) over the entries es, from
\* the files fs, n temporary names and ch renames on: the files at the end and
\* the number returned.
RECURSIVE PrefixFiles(_, _, _, _, _, _, _, _)
PrefixFiles(ds, fs, lk, plat, n, es, i, ch) ==
    IF es = <<>> THEN [files |-> fs, changed |-> ch]
    ELSE LET src == Head(es)
             dst == WithName(src, IntToStr(i) \o <<"_">> \o NameOf(src))
             r   == _safe_rename(ds, fs, lk, plat, n, src, dst)
         IN  PrefixFiles(ds, r.files, lk, plat, IF r.hop THEN n + 1 ELSE n, Tail(es), i,
                         ChangedAfter(r.exc = "none", ch))

\* The directory is listed, and its files are about to be renamed in some order.
InitOrder ==
    /\ dirs = {<<>>}
    /\ \E S \in SubsetsUpTo(OrderPool, MaxFiles) : files = {NewFile(<<n>>) : n \in S}
    /\ dirs0 = dirs
    /\ files0 = FilePaths(files)
    /\ platform \in Platforms
    /\ scanOrder = "asc"
    /\ root = <<>>
    /\ includeRoot = TRUE
    /\ locked = {}
    /\ denied = {}
    /\ vanishing = {}
    /\ entries \in Orders(files0)
    /\ pc = IF entries = <<>> THEN "walk" ELSE "rename"
    /\ idx \in OrderIndices
    /\ listed = Len(entries)
    /\ run = 1
    /\ total = 0
    /\ changed = 0
    /\ stack = <<>>
    /\ cur = <<>>
    /\ events = <<>>
    /\ results = <<>>
    /\ err = "none"
    /\ uuid = 0
    /\ last = NoCall
    /\ indexed = {}
    /\ InitUI
    /\ InitKey

NextOrder == Rename

SpecOrder == InitOrder /\ [][NextOrder]_vars

(***************************************************************************)
(* natural_key on its own: the keys of two names compared, as list.sort    *)
(* compares them                                                           *)
(***************************************************************************)
\* Digits with a leading zero, letters in both cases, and a superscript.
KeyAlphabet == {"0", "1", "a", "A", Sup2}

\* The longest name.
MaxNameLen == 2

KeyNames == UNION {[1 .. n -> KeyAlphabet] : n \in 0 .. MaxNameLen}

\* natural_key(a) < natural_key(b): what the comparison gives or raises.
CompareKeys(a, b) ==
    IF KeyRaises(a) \/ KeyRaises(b) THEN "ValueError"
    ELSE KeyCmp(natural_key(a), natural_key(b))

InitCompare ==
    /\ NoTree
    /\ RunIdle
    /\ InitUI
    /\ names \in KeyNames \X KeyNames
    /\ cmp = "none"

\* The keys of the two names are computed and compared.
Compare ==
    /\ cmp = "none"
    /\ cmp' = CompareKeys(names[1], names[2])
    /\ UNCHANGED <<names, dirs, files, vanishing, pc, run, total, changed, stack, cur, idx,
                   entries, events, results, err, uuid, last, listed>>
    /\ UNCHANGED <<denied, locked, platform, scanOrder, root, includeRoot, dirs0, files0,
                   indexed, uiVars>>

NextCompare == Compare

SpecKey == InitCompare /\ [][NextCompare]_vars

(***************************************************************************)
(* Properties                                                              *)
(***************************************************************************)
\* The messages of this run of type t.
EventsOf(t) == {i \in DOMAIN events : events[i].t = t}

Ended == pc \in {"done", "raised"}

RootInvalid == ~Exists(dirs, files, root) \/ ~IsDir(dirs, root)

\* C3: if root does not exist or is not a directory, rename_files_in_tree
\* raises NotADirectoryError before any rename and before any message to log,
\* and the filesystem is as it was.
C3_RootPrecondition ==
    (RootInvalid /\ pc # "idle") =>
        /\ pc = "raised"
        /\ err = "NotADirectoryError"
        /\ events = <<>>
        /\ results = <<>>
        /\ ~last.called
        /\ dirs = dirs0
        /\ files = {NewFile(p) : p \in files0}

C3_Witness ==
    /\ pc = "raised"
    /\ IsFile(files, root)
    /\ \E f \in files : ParentOf(f.path) = <<>>

\* The place of each name of the pool in the natural order of the spec's
\* example (1, 2, 10, A, b1, B2, B10); "01" ranks as "1" and "a" as "A".
ExampleRank ==
    [n \in SiblingPool |->
        IF n \in {N_1, N_01} THEN 1
        ELSE IF n = N_2 THEN 2
        ELSE IF n = N_10 THEN 3
        ELSE IF n \in {N_A, N_a} THEN 4
        ELSE IF n = N_b1 THEN 5
        ELSE IF n = N_B2 THEN 6
        ELSE 7]

\* C8: get_folder_index_among_siblings returns the 1-based position of the
\* directory among its parent's subdirectories in natural order (digit runs by
\* value, letters without case), and the n subdirectories of a parent get
\* exactly the indices 1..n.
C8_SiblingIndex ==
    LET sibs == dirs \ {<<>>}
    IN  /\ \A pr \in indexed :
              LET below == {s \in sibs : ExampleRank[NameOf(s)] < ExampleRank[NameOf(pr[1])]}
                  ties  == {s \in sibs \ {pr[1]} :
                               ExampleRank[NameOf(s)] = ExampleRank[NameOf(pr[1])]}
              IN  /\ pr[2] >= 1 + Cardinality(below)
                  /\ pr[2] <= 1 + Cardinality(below) + Cardinality(ties)
        /\ \A p1, p2 \in indexed : p1[1] # p2[1] => p1[2] # p2[2]
        /\ Cardinality(indexed) = Cardinality(sibs) =>
              {pr[2] : pr \in indexed} = 1 .. Cardinality(sibs)

C8_Witness ==
    indexed = { << <<N_1>>, 1 >>, << <<N_2>>, 2 >>, << <<N_10>>, 3 >>, << <<N_A>>, 4 >>,
                << <<N_b1>>, 5 >>, << <<N_B2>>, 6 >>, << <<N_B10>>, 7 >> }

\* The directories whose files a run renames: those below root, and root
\* itself with include_root_files.
Processed(d) == d \in dirs0 /\ (IsUnder(d, root) \/ (includeRoot /\ d = root))

\* Whether d is one of the subdirectories of its parent.
HasSiblingRank(d) == d \in dirs0 /\ IsChildOf(d, ParentOf(d))

\* The 1-based rank of d among the subdirectories of its parent in natural order.
NaturalRank(d) ==
    1 + Cardinality({s \in dirs0 : /\ IsChildOf(s, ParentOf(d))
                                   /\ NaturalLess(NameOf(s), NameOf(d))})

\* The rank of d, and 1 for a path that is its own parent.
ExpectedIndex(d) == IF ParentOf(d) = d THEN 1 ELSE NaturalRank(d)

\* "<i>_<name>" beside p.
Prefixed(p, i) == WithName(p, IntToStr(i) \o <<"_">> \o NameOf(p))

\* No file of a processed directory has its destination name taken at the start.
NoDestinationExists ==
    \A p \in files0 : Processed(ParentOf(p)) =>
        Prefixed(p, ExpectedIndex(ParentOf(p))) \notin files0 \cup dirs0

FirstRunClean ==
    /\ pc = "done"
    /\ run = 1
    /\ EventsOf("ERROR") = {}
    /\ NoDestinationExists

\* C1 as stated: after a run in which no rename fails and no destination name
\* exists beforehand, every file of a processed directory D is named
\* "<i>_<original name>" in D, i being D's rank among the subdirectories of
\* D's parent, and no original name remains.
C1_Stated ==
    FirstRunClean =>
        \A p \in files0 : Processed(ParentOf(p)) =>
            /\ HasSiblingRank(ParentOf(p))
            /\ \E f \in files : f.orig = p /\ f.path = Prefixed(p, NaturalRank(ParentOf(p)))
            /\ p \notin FilePaths(files)

\* C1 as amended: the same, i being 1 when D is a path that is its own parent
\* (a root given as "/", a drive or "."), which has no rank among siblings.
C1_PrefixedByRank ==
    FirstRunClean =>
        \A p \in files0 : Processed(ParentOf(p)) =>
            /\ \E f \in files : f.orig = p /\ f.path = Prefixed(p, ExpectedIndex(ParentOf(p)))
            /\ p \notin FilePaths(files)

C1_Witness ==
    /\ FirstRunClean
    /\ root = <<N_10>>
    /\ \E f \in files : f.orig = <<N_10, N_a>> /\ f.path = <<N_10, <<"2", "_", "a">> >>
    /\ \E f \in files : f.orig = <<N_10, N_b10, N_1>> /\ f.path = <<N_10, N_b10, N_2_1>>

\* C2: a call _safe_rename(src, dst) with src # dst whose dst exists as another
\* file raises nothing and overwrites nothing: it takes the temporary hop, and
\* both files are there afterwards.
C2_SafeRenameKeepsBoth ==
    (last.called /\ last.src # last.dst /\ last.dstExisted) =>
        /\ last.exc = "none"
        /\ last.hop
        /\ last.srcKept
        /\ last.dstKept

\* C6: within one run each file is renamed at most once.
C6_AtMostOneRename == \A f \in files : f.moves <= 1

\* C7: a second run on the same tree prefixes every processed file once more
\* (f in a directory of index i is named "i_i_f") and renames as many files as
\* the first run.
C7_SecondRunPrefixesAgain ==
    (pc = "done" /\ run = 2) =>
        /\ results[2] = results[1]
        /\ \A p \in files0 : Processed(ParentOf(p)) =>
              \E f \in files :
                  /\ f.orig = p
                  /\ f.path = WithName(p, IntToStr(ExpectedIndex(ParentOf(p))) \o <<"_">>
                                          \o NameOf(Prefixed(p, ExpectedIndex(ParentOf(p)))))

\* The directories _iter_subdirs_natural has yielded in this run, in order.
Yielded ==
    LET pe == SelectSeq(events, LAMBDA e : e.t = "PROCESSING")
    IN  [i \in DOMAIN pe |-> pe[i].p]

\* a comes before b in depth-first pre-order with siblings in natural order.
PreOrderBefore(a, b) ==
    \/ IsUnder(b, a)
    \/ \E k \in 1 .. Len(a) :
          /\ k <= Len(b)
          /\ SubSeq(a, 1, k - 1) = SubSeq(b, 1, k - 1)
          /\ a[k] # b[k]
          /\ NaturalLess(a[k], b[k])

\* C9: _iter_subdirs_natural yields every directory below root once, never
\* root, in depth-first pre-order with siblings in natural order.
C9_WalkOrder ==
    /\ \A i \in DOMAIN Yielded : Yielded[i] \in dirs /\ IsUnder(Yielded[i], root)
    /\ \A i, j \in DOMAIN Yielded :
          i < j => Yielded[i] # Yielded[j] /\ PreOrderBefore(Yielded[i], Yielded[j])
    /\ pc = "done" => Range(Yielded) = {d \in dirs : IsUnder(d, root)}

C9_Witness ==
    /\ pc = "done"
    /\ Yielded = << <<N_2>>, <<N_10>>, <<N_10, N_B2>>, <<N_10, N_B2, N_1>>, <<N_10, N_b10>> >>

\* C4: a failed rename ends neither the directory nor the run (every file
\* listed is attempted), and the value returned is the number of renames that
\* succeeded, which is the number of RENAMED messages and the total of DONE.
C4_PartialFailure ==
    LET renamed == Cardinality(EventsOf("RENAMED"))
        failed  == Cardinality(EventsOf("ERROR"))
    IN  /\ pc # "rename" => entries = <<>>
        /\ Ended => renamed + failed = listed
        /\ pc = "done" =>
              /\ results = <<renamed>>
              /\ events[Len(events)] = Ev("DONE", <<>>, <<>>, renamed)

C4_Witness ==
    /\ pc = "done"
    /\ results = <<2>>
    /\ locked = { <<N_10, N_1>> }
    /\ \E i, j, k \in DOMAIN events :
          /\ i < j /\ j < k
          /\ events[i].t = "ERROR" /\ events[i].p = <<N_10, N_1>>
          /\ events[j].t = "RENAMED" /\ ParentOf(events[j].p) = <<N_10>>
          /\ events[k].t = "RENAMED" /\ ParentOf(events[k].p) = <<N_10>>

\* C5: once the root precondition has passed, a directory that cannot be
\* listed (vanished, or permission denied) never makes the run raise.
C5_UnlistableNeverAborts ==
    pc = "raised" => (err = "NotADirectoryError" /\ events = <<>>)

\* C10: the message that announces a directory, with the index used as prefix,
\* comes before every RENAMED or ERROR message of its files, and a run that
\* passed the root precondition logs DONE exactly once, as its last message.
C10_EventOrder ==
    /\ \A i \in EventsOf("RENAMED") \cup EventsOf("ERROR") :
          \E j \in 1 .. (i - 1) :
              /\ events[j].t \in {"ROOT", "PROCESSING"}
              /\ events[j].p = ParentOf(events[i].p)
              /\ events[i].t = "RENAMED" => events[i].q = Prefixed(events[i].p, events[j].n)
    /\ (Ended /\ err # "NotADirectoryError") =>
          /\ Cardinality(EventsOf("DONE")) = 1
          /\ events[Len(events)].t = "DONE"

\* The files of root itself have been dealt with in the first run.
RootFilesDone ==
    /\ run = 1
    /\ includeRoot
    /\ (EventsOf("PROCESSING") # {} \/ pc = "done")

\* C11: without include_root_files the files directly in root keep their names
\* for the whole run; with it they are prefixed with root's own index, and that
\* before any subdirectory of root is processed.
C11_RootFiles ==
    /\ ~includeRoot => \A f \in files : ParentOf(f.orig) = root => f.path = f.orig
    /\ \A i \in EventsOf("RENAMED") \cup EventsOf("ERROR") :
          ParentOf(events[i].p) = root => \A j \in EventsOf("PROCESSING") : i < j
    /\ RootFilesDone =>
          \A p \in files0 : ParentOf(p) = root =>
              \E f \in files : f.orig = p /\ f.path = Prefixed(p, ExpectedIndex(root))

\* The workers that are executing _worker.
Alive == {w \in WorkerIds : workers[w].pc \in {"start", "call", "finally"}}

\* The sentinels put and not yet taken by run_app.
SentinelsQueued == {i \in DOMAIN log_queue : log_queue[i] = Sentinel}

\* C12: at most one worker thread is executing at any time, and a worker is
\* started only after the worker before it has put its completion sentinel and
\* run_app has dequeued it: of the runs started, at most one is executing or
\* has its sentinel still in the queue, and while there is one, running is
\* true.
C12_OneWorker ==
    /\ Cardinality(Alive) + Cardinality(SentinelsQueued) <= 1
    /\ (Alive # {} \/ SentinelsQueued # {}) => running

\* A Start arrives while a run is going on.
C12_Witness ==
    /\ workers[1].pc = "call"
    /\ puts[1] = <<LogLine("Start processing"), LogLine("log")>>
    /\ shown = <<LogLine("Start processing")>>
    /\ uiPc = "handle"
    /\ event = "-START-"
    /\ folder_str = "dir"
    /\ button.disabled

\* The files directly in directory d.
FilesIn(fs, d) == {p \in fs : ParentOf(p) = d}

\* C13: no file is lost by a run: when rename_files_in_tree has returned,
\* every directory holds as many files as before the run, whatever names the
\* tree had at the start.
C13_NoFileLost ==
    (pc = "done" /\ run = 1) =>
        \A d \in dirs0 :
            Cardinality(FilesIn(FilePaths(files), d)) = Cardinality(FilesIn(files0, d))

\* What _prefix_files_in_dir leaves and returns when it takes the files of the
\* directory in natural order, as the code does.
InNaturalOrder ==
    PrefixFiles(dirs0, {NewFile(p) : p \in files0}, locked, platform, 0,
                SortNatural(ScanSeq(files0, scanOrder)), idx, 0)

\* C14: the order in which _prefix_files_in_dir takes the files of a directory
\* changes neither the file names at the end nor the number returned: any
\* order gives what the natural order gives.
C14_OrderIndependent ==
    pc = "walk" =>
        /\ FilePaths(files) = FilePaths(InNaturalOrder.files)
        /\ total = InNaturalOrder.changed

\* The outcome for the same keys the other way round.
Flipped(c) == IF c = "lt" THEN "gt" ELSE IF c = "gt" THEN "lt" ELSE c

\* C15: the comparison of the keys of any two names succeeds, no position
\* holding an integer in one key and a text in the other; the order is
\* antisymmetric (keys that compare equal are the same key, and names that
\* differ in case only have the same key) and transitive.
C15_KeyOrderTotal ==
    cmp # "none" =>
        LET a == names[1]
            b == names[2]
        IN  /\ cmp \in {"lt", "eq", "gt"}
            /\ \A i \in DOMAIN natural_key(a) \cap DOMAIN natural_key(b) :
                  natural_key(a)[i].isInt = natural_key(b)[i].isInt
            /\ CompareKeys(b, a) = Flipped(cmp)
            /\ cmp = "eq" <=> natural_key(a) = natural_key(b)
            /\ Lower(a) = Lower(b) => cmp = "eq"
            /\ \A c \in KeyNames :
                  (~KeyRaises(c) /\ cmp = "lt" /\ CompareKeys(b, c) = "lt") =>
                      CompareKeys(a, c) = "lt"

\* The parent of d cannot be listed: it is gone, or listing it is denied.
ParentUnreadable(d) == ParentOf(d) \notin dirs \/ ParentOf(d) \in denied

\* C16: get_folder_index_among_siblings never raises and returns an integer
\* >= 1: 1 for a path that is its own parent, for a parent that cannot be
\* read and for a directory that is not in the parent's listing, otherwise 1
\* plus the position in the sorted listing.
C16_IndexNeverFails ==
    (cur # <<>> \/ indexed # {} \/ err # "none") =>
        /\ err = "none"
        /\ \A pr \in indexed :
              LET d     == pr[1]
                  below == {s \in dirs : IsChildOf(s, ParentOf(d)) /\ NaturalLess(NameOf(s), NameOf(d))}
                  ties  == {s \in dirs \ {d} :
                               /\ IsChildOf(s, ParentOf(d))
                               /\ ~NaturalLess(NameOf(s), NameOf(d))
                               /\ ~NaturalLess(NameOf(d), NameOf(s))}
              IN  /\ pr[2] >= 1
                  /\ IF ParentOf(d) = d \/ ParentUnreadable(d) \/ d \notin dirs
                     THEN pr[2] = 1
                     ELSE /\ pr[2] >= 1 + Cardinality(below)
                          /\ pr[2] <= 1 + Cardinality(below) + Cardinality(ties)

IsTemporary(name) ==
    /\ Len(name) >= Len(TempPrefix)
    /\ SubSeq(name, 1, Len(TempPrefix)) = TempPrefix

\* C18: when rename_files_in_tree has returned, no file is under a temporary
\* "__renaming__..." name: a file whose rename was reported as RENAMED is
\* under its prefixed name, one reported as ERROR is still under its original
\* name.
C18_NoTemporaryLeft ==
    (pc = "done" /\ run = 1) =>
        /\ \A f \in files : ~IsTemporary(NameOf(f.path))
        /\ \A i \in EventsOf("ERROR") : events[i].p \in FilePaths(files)
        /\ \A i \in EventsOf("RENAMED") :
              \/ events[i].q \in FilePaths(files)
              \/ \E j \in EventsOf("RENAMED") : j > i /\ events[j].p = events[i].q

\* The places of the sentinel among the messages worker w has put.
SentinelsPut(w) == {i \in DOMAIN puts[w] : puts[w][i] = Sentinel}

\* A worker puts the sentinel once, as its last message, after the line that
\* tells how rename_files_in_tree ended; the button shows whether a run is on.
SentinelLast ==
    /\ \A w \in WorkerIds :
          /\ SentinelsPut(w) \subseteq {Len(puts[w])}
          /\ SentinelsPut(w) # {} <=> workers[w].pc = "dead"
          /\ workers[w].pc = "dead" =>
                /\ Len(puts[w]) >= 3
                /\ puts[w][1] = LogLine("Start processing")
                /\ puts[w][Len(puts[w]) - 1] \in {LogLine("SUCCESS"), LogLine("FAILED")}
    /\ button.disabled <=> running

\* C19: every worker, whether rename_files_in_tree returns or raises, puts the
\* completion sentinel exactly once, as its last message, after all its log
\* lines; and while the loop of run_app goes on, a run that is on leads to the
\* sentinel being taken, running reset and the Start button enabled again.
C19_SentinelAlwaysSeen ==
    /\ []SentinelLast
    /\ running ~> ((~running /\ ~button.disabled) \/ uiPc = "closed")

C19_Witness ==
    /\ workers[1].pc = "dead"
    /\ puts[1] = <<LogLine("Start processing"), LogLine("log"), LogLine("FAILED"), Sentinel>>
    /\ shown = <<LogLine("Start processing"), LogLine("log"), LogLine("FAILED")>>
    /\ log_queue = <<>>
    /\ ~running
    /\ button = [text |-> "Start", disabled |-> FALSE]

====
